---- MODULE Spec2Model ----
(***************************************************************************)
(* A model of src/src/index.js (showtimes): the four public operations,    *)
(* the shared request helper, and the extraction helpers.                  *)
(*                                                                         *)
(* Text is modelled at character level: a string is a sequence of          *)
(* one-character strings.  A non-ASCII character is written as its code    *)
(* point name ("U+200E"), which is one element of the sequence.            *)
(***************************************************************************)
EXTENDS Integers, Sequences, FiniteSets, TLC

\* ------------------------------------------------------------------ text

\* The characters outside \x00-\x7F that the inputs use (index.js:535,541).
NonAscii == {"U+200E", "U+00FC"}

IsAscii(c) == c \notin NonAscii

\* JavaScript's whitespace, as far as the inputs use it.
IsSpace(c) == c \in {" ", "\n"}

\* pat occurs in s at position i.
MatchAt(s, pat, i) ==
    /\ i >= 1
    /\ i + Len(pat) - 1 <= Len(s)
    /\ \A k \in 1..Len(pat) : s[i + k - 1] = pat[k]

\* String.prototype.indexOf, 1-based; 0 when pat does not occur.
IndexOf(s, pat) ==
    LET hits == {i \in 1..Len(s) : MatchAt(s, pat, i)}
    IN  IF hits = {} THEN 0 ELSE CHOOSE i \in hits : \A j \in hits : i <= j

Contains(s, pat) == IndexOf(s, pat) # 0

\* String.prototype.split(sep) for a non-empty separator.
RECURSIVE Split(_, _)
Split(s, sep) ==
    LET i == IndexOf(s, sep)
    IN  IF i = 0 THEN <<s>>
        ELSE <<SubSeq(s, 1, i - 1)>> \o Split(SubSeq(s, i + Len(sep), Len(s)), sep)

\* String.prototype.replace(pat, rep) with a string or non-global pattern:
\* the first occurrence only.
ReplaceFirst(s, pat, rep) ==
    LET i == IndexOf(s, pat)
    IN  IF i = 0 THEN s
        ELSE SubSeq(s, 1, i - 1) \o rep \o SubSeq(s, i + Len(pat), Len(s))

\* String.prototype.trim.
Trim(s) ==
    LET keep == {i \in 1..Len(s) : ~IsSpace(s[i])}
    IN  IF keep = {} THEN <<>>
        ELSE LET lo == CHOOSE i \in keep : \A j \in keep : i <= j
                 hi == CHOOSE i \in keep : \A j \in keep : i >= j
             IN  SubSeq(s, lo, hi)

\* The case folding of the /i patterns, on the letters the patterns name.
Lower(c) ==
    CASE c = "I" -> "i" [] c = "M" -> "m" [] c = "D" -> "d" [] c = "B" -> "b"
      [] c = "T" -> "t" [] c = "R" -> "r" [] c = "A" -> "a" [] c = "E" -> "e"
      [] c = "L" -> "l" [] OTHER -> c

LowerStr(s) == [i \in 1..Len(s) |-> Lower(s[i])]

Reverse(s) == [i \in 1..Len(s) |-> s[Len(s) + 1 - i]]

RECURSIVE Join(_, _)
Join(ss, sep) ==
    IF ss = <<>> THEN <<>>
    ELSE IF Len(ss) = 1 THEN ss[1]
    ELSE ss[1] \o sep \o Join(Tail(ss), sep)

\* ------------------------------------------------------ JavaScript values

\* false, undefined, a string, an array of strings.
JsFalse == [t |-> "false"]
Undefined == [t |-> "undefined"]
JsStr(s) == [t |-> "str", v |-> s]
JsList(l) == [t |-> "list", v |-> l]

\* Showtimes.prototype._removeNonAsciiCharacters on a string.
RemoveNonAsciiStr(s) == SelectSeq(s, IsAscii)

\* Showtimes.prototype._removeNonAsciiCharacters: an array is filtered element
\* by element (in place), a string as a whole.
RemoveNonAsciiCharacters(thing) ==
    IF thing.t = "list"
    THEN JsList([i \in 1..Len(thing.v) |-> RemoveNonAsciiStr(thing.v[i])])
    ELSE JsStr(RemoveNonAsciiStr(thing.v))

\* ------------------------------------------------------------------ links

\* An href attribute: Undefined when the element or the attribute is missing,
\* otherwise a URL, modelled by the query parameters the code reads.
Href(q, mid, tid) == [t |-> "href", q |-> q, mid |-> mid, tid |-> tid]

\* url.parse(u): a Url object whose query is the URL's query string.  A
\* non-string argument is a TypeError.
UrlParse(u) ==
    IF u.t = "href" THEN [t |-> "Url", query |-> [t |-> "query", q |-> u.q, mid |-> u.mid, tid |-> u.tid]]
    ELSE [t |-> "TypeError"]

\* querystring.parse(x): the parameters of a query string; for an argument
\* that is not a string (a Url object, undefined) the empty object.
QsParse(x) ==
    IF x.t = "query" THEN [q |-> x.q, mid |-> x.mid, tid |-> x.tid]
    ELSE [q |-> Undefined, mid |-> Undefined, tid |-> Undefined]

\* -------------------------------------------------------------- showtimes

AM == <<"a", "m">>
PM == <<"p", "m">>

\* showtime.match(/(am|pm)/): the leftmost match, <<>> for null.
MatchMeridiem(showtime) ==
    LET hits == {i \in 1..Len(showtime) : MatchAt(showtime, AM, i) \/ MatchAt(showtime, PM, i)}
    IN  IF hits = {} THEN <<>>
        ELSE LET i == CHOOSE h \in hits : \A j \in hits : h <= j
             IN  SubSeq(showtime, i, i + 1)

\* A plausible slip: the carried meridiem is never updated from a token that
\* states its own.
GetTime_NoCarry(raw_time, meridiem) ==
    LET showtime == Trim(RemoveNonAsciiStr(raw_time))
    IN  IF MatchMeridiem(showtime) # <<>> THEN [time |-> showtime, meridiem |-> meridiem]
        ELSE IF meridiem # <<>> THEN [time |-> showtime \o meridiem, meridiem |-> meridiem]
        ELSE [time |-> showtime, meridiem |-> meridiem]

\* getTime of _parseShowtimes, with the closure variable meridiem passed in
\* and handed back (<<>> stands for its initial value false).
GetTime(raw_time, meridiem) ==
    LET showtime == Trim(RemoveNonAsciiStr(raw_time))
        match == MatchMeridiem(showtime)
    IN  IF match # <<>> THEN [time |-> showtime, meridiem |-> match]
        ELSE IF meridiem # <<>> THEN [time |-> showtime \o meridiem, meridiem |-> meridiem]
        ELSE [time |-> showtime, meridiem |-> meridiem]

\* _.map(list, getTime) over a list, threading meridiem through the calls.
RECURSIVE MapGetTime(_, _)
MapGetTime(raws, meridiem) ==
    IF raws = <<>> THEN <<>>
    ELSE LET r == GetTime(Head(raws), meridiem)
         IN  <<r.time>> \o MapGetTime(Tail(raws), r.meridiem)

\* The time tokens _parseShowtimes works on: the anchors' texts when the
\* fragment has ticket anchors (.times a.fl), else the .times text split on " ".
TimeTokens(thing) ==
    IF Len(thing.anchors) = 0 THEN Split(thing.times, <<" ">>)
    ELSE [i \in 1..Len(thing.anchors) |-> thing.anchors[i].time]

\* Showtimes.prototype._parseShowtimes.  showtime_tickets is written during
\* the reverse pass, so of two anchors with the same resolved time the
\* chronologically first is the one kept.
ParseShowtimes(thing) ==
    LET showtimes == Reverse(MapGetTime(Reverse(TimeTokens(thing)), <<>>))
    IN  IF Len(thing.anchors) = 0
        THEN [showtimes |-> showtimes, showtime_tickets |-> Undefined]
        ELSE LET keys == {showtimes[i] : i \in 1..Len(showtimes)}
                 first(k) == CHOOSE i \in 1..Len(showtimes) :
                               /\ showtimes[i] = k
                               /\ \A j \in 1..Len(showtimes) : showtimes[j] = k => i <= j
             IN  [showtimes |-> showtimes,
                  showtime_tickets |->
                      [t |-> "map",
                       v |-> [k \in keys |-> QsParse(UrlParse(thing.anchors[first(k)].href).query).q]]]

\* ------------------------------------------------------------------ movies

\* The words the patterns of _parseMovie look for.
HR == <<"h", "r", " ">>
MIN == <<"m", "i", "n">>
RATED == <<"R", "a", "t", "e", "d">>
IMDB == <<"i", "m", "d", "b">>
IMDbLabel == <<"I", "M", "D", "b">>
TRAILER == <<"t", "r", "a", "i", "l", "e", "r">>
TrailerLabel == <<"T", "r", "a", "i", "l", "e", "r">>
DIRECTOR == <<"D", "i", "r", "e", "c", "t", "o", "r", ":">>
CAST == <<"C", "a", "s", "t", ":">>
DASH == <<" ", "-", " ">>

\* A node of an element's content: a text node, a <br>, an anchor, or another
\* element with text.
TextNode(s) == [k |-> "text", s |-> s, href |-> Undefined]
BrNode == [k |-> "br", s |-> <<>>, href |-> Undefined]
ANode(s, href) == [k |-> "a", s |-> s, href |-> href]
ElNode(s) == [k |-> "el", s |-> s, href |-> Undefined]

\* An element that is present, with its content; Undefined stands for a
\* selection that matched nothing.
Element(nodes) == [t |-> "el", nodes |-> nodes]

\* cheerio's .text() of a content: the text of its descendants in order (a
\* <br> has none).
RECURSIVE NodesText(_)
NodesText(nodes) ==
    IF nodes = <<>> THEN <<>> ELSE Head(nodes).s \o NodesText(Tail(nodes))

\* content.replace('<br>', ' - ') followed by .html(content): the first <br>
\* of the serialised content becomes the text " - " (text nodes serialise
\* with "<" escaped, so only a <br> element can match).
ReplaceFirstBr(nodes) ==
    LET brs == {i \in 1..Len(nodes) : nodes[i].k = "br"}
    IN  IF brs = {} THEN nodes
        ELSE LET i == CHOOSE b \in brs : \A j \in brs : b <= j
             IN  [nodes EXCEPT ![i] = TextNode(DASH)]

\* _parseMovie, lines 345-347: the last .info element's markup is rewritten
\* in the loaded page.
RewriteInfo(movie) ==
    [movie EXCEPT !.info = Element(ReplaceFirstBr(movie.info.nodes))]

\* movie.find('#SynopsisSecond0').children().last().remove(): the last child
\* element goes, text nodes stay.
RemoveLastChild(nodes) ==
    LET els == {i \in 1..Len(nodes) : nodes[i].k # "text"}
    IN  IF els = {} THEN nodes
        ELSE LET i == CHOOSE e \in els : \A j \in els : e >= j
             IN  SubSeq(nodes, 1, i - 1) \o SubSeq(nodes, i + 1, Len(nodes))

\* info[x].match(/(IMDB|Trailer)/i)
MatchesLinkLabel(tok) ==
    Contains(LowerStr(tok), IMDB) \/ Contains(LowerStr(tok), TRAILER)

\* The genre a candidate token gives (lines 364-368 and 375-379).
GenreOf(tok) ==
    IF MatchesLinkLabel(tok) THEN JsFalse ELSE JsList(Split(Trim(tok), <<"/">>))

\* info[0].match(/(hr |min)/)
IsRuntime(tok) == Contains(tok, HR) \/ Contains(tok, MIN)

\* if (genre) genre = this._removeNonAsciiCharacters(genre), lines 387-389: an
\* array is always truthy, a string when it is not empty.
StripGenre(meta) ==
    IF meta.genre.t = "list" \/ (meta.genre.t = "str" /\ meta.genre.v # <<>>)
    THEN [meta EXCEPT !.genre = RemoveNonAsciiCharacters(meta.genre)]
    ELSE meta

\* Lines 356-380: the branch taken when info[0] is a runtime; info1 is
\* info[1], or '' when that is missing or empty.
ClassifyWithRuntime(info, info1) ==
    IF Contains(info1, RATED)
    THEN [runtime |-> JsStr(RemoveNonAsciiStr(Trim(info[1]))),
          rating |-> JsStr(RemoveNonAsciiStr(Trim(ReplaceFirst(info1, RATED, <<>>)))),
          genre |-> IF Len(info) >= 3 THEN GenreOf(info[3]) ELSE JsFalse]
    ELSE [runtime |-> JsStr(RemoveNonAsciiStr(Trim(info[1]))),
          rating |-> JsFalse,
          genre |-> GenreOf(info1)]

\* Lines 354-389 of _parseMovie: runtime, rating and genre from the info
\* tokens (info[0] of the code is info[1] here).
ClassifyInfo(info) ==
    StripGenre(
        IF IsRuntime(info[1])
        THEN ClassifyWithRuntime(info, IF Len(info) >= 2 THEN info[2] ELSE <<>>)
        ELSE [runtime |-> JsFalse, rating |-> JsFalse, genre |-> JsStr(Trim(info[1]))])

\* The tokens the director/cast loop sees: info[1] = '' was stored when the
\* runtime branch found no second token.
InfoAfterClassify(info) ==
    IF IsRuntime(info[1]) /\ Len(info) = 1 THEN info \o << <<>> >> ELSE info

\* The for-in loop of lines 394-400: the last token naming a director, the
\* last naming a cast (a token naming both counts as a director).
DirectorOf(info) ==
    LET hits == {i \in 1..Len(info) : Contains(info[i], DIRECTOR)}
    IN  IF hits = {} THEN Undefined
        ELSE LET i == CHOOSE h \in hits : \A j \in hits : h >= j
             IN  JsStr(Trim(ReplaceFirst(info[i], DIRECTOR, <<>>)))

CastOf(info) ==
    LET hits == {i \in 1..Len(info) : ~Contains(info[i], DIRECTOR) /\ Contains(info[i], CAST)}
    IN  IF hits = {} THEN Undefined
        ELSE LET i == CHOOSE h \in hits : \A j \in hits : h >= j
             IN  JsList(Split(Trim(ReplaceFirst(info[i], CAST, <<>>)), <<",", " ">>))

\* _parseTrailer and _parseImdb: the first anchor of .info whose text holds
\* the label; 'https://google.com' + href is parsed, so a missing href gives
\* a URL without parameters.
ParseLink(movie, label) ==
    LET nodes == IF movie.info.t = "el" THEN movie.info.nodes ELSE <<>>
        as == SelectSeq(nodes, LAMBDA n : n.k = "a" /\ Contains(n.s, label))
    IN  IF Len(as) = 0 THEN JsFalse
        ELSE IF as[1].href.t = "href" THEN as[1].href.q ELSE Undefined

ParseTrailer(movie) == ParseLink(movie, TrailerLabel)

ParseImdb(movie) == ParseLink(movie, IMDbLabel)

Thrown == [t |-> "TypeError"]

\* A key the record does not have.
Absent == [t |-> "absent"]

\* JavaScript truthiness of an id: a non-empty string.
Truthy(x) == x.t = "str" /\ x.v # <<>>

\* The href the id is read from: the fragment's own link, else the first
\* link of the page's left navigation (lines 253-255 and 331-333).
CloakedUrl(doc, thing) ==
    IF thing.link.t = "undefined" THEN doc.leftNav ELSE thing.link

\* Lines 323-336: the id asked for, else the mid parameter of the link.
MovieId(doc, movie, movieId) ==
    IF movieId.t = "undefined" THEN QsParse(UrlParse(CloakedUrl(doc, movie)).query).mid
    ELSE movieId

\* Lines 340-352: the info tokens, read from the fragment as rewritten.
InfoTokens(dom) ==
    Split(IF dom.info.t = "el" THEN NodesText(dom.info.nodes) ELSE <<>>, DASH)

\* Lines 392-408 and 429-433: director, cast and description, read when the
\* layout is movie-first and the id is truthy; the fragment loses the last
\* child of #SynopsisSecond0.
DetailFields(movie, info, detail) ==
    IF detail
    THEN [director |-> DirectorOf(InfoAfterClassify(info)),
          cast |-> CastOf(InfoAfterClassify(info)),
          description |-> JsStr(Trim(movie.description \o NodesText(RemoveLastChild(movie.synopsis))))]
    ELSE [director |-> Absent, cast |-> Absent, description |-> Absent]

CutSynopsis(dom, detail) ==
    IF detail THEN [dom EXCEPT !.synopsis = RemoveLastChild(dom.synopsis)] ELSE dom

\* Lines 410-415: theater-first parses the showtimes here.
MovieShowtimes(movie, alternate) ==
    IF alternate THEN [showtimes |-> <<>>, showtime_tickets |-> Undefined]
    ELSE ParseShowtimes(movie)

\* Lines 417-435: the record.
MovieData(dom, id, meta, showtimes, fields) ==
    [t |-> "movie",
     id |-> id,
     name |-> JsStr(dom.name),
     runtime |-> meta.runtime,
     rating |-> meta.rating,
     genre |-> meta.genre,
     imdb |-> ParseImdb(dom),
     trailer |-> ParseTrailer(dom),
     showtimes |-> JsList(showtimes.showtimes),
     showtime_tickets |-> IF showtimes.showtime_tickets.t = "map"
                          THEN showtimes.showtime_tickets ELSE Absent,
     director |-> fields.director,
     cast |-> fields.cast,
     description |-> fields.description,
     theaters |-> Absent,
     more_theaters |-> Absent]

\* Lines 338-435, once the name and the id are there: dom is the fragment
\* with its info rewritten (movie-first), detail says whether the detail
\* fields are read.
MovieFromInfo(dom, alternate, id, detail) ==
    [ret |-> MovieData(dom, id, ClassifyInfo(InfoTokens(dom)), MovieShowtimes(dom, alternate),
                       DetailFields(dom, InfoTokens(dom), detail)),
     dom |-> CutSynopsis(dom, detail)]

\* Showtimes.prototype._parseMovie.  doc is the loaded page ($), movie the
\* fragment; the result is the returned value (a record, false, or a thrown
\* TypeError) and the fragment as the call leaves it in the page.
ParseMovie(doc, movie, alternate, movieId) ==
    IF movie.name = <<>> THEN [ret |-> JsFalse, dom |-> movie]
    ELSE IF movieId.t = "undefined" /\ UrlParse(CloakedUrl(doc, movie)).t = "TypeError"
    THEN [ret |-> Thrown, dom |-> movie]
    ELSE IF alternate /\ movie.info.t # "el" THEN [ret |-> Thrown, dom |-> movie]
    ELSE MovieFromInfo(IF alternate THEN RewriteInfo(movie) ELSE movie, alternate,
                       MovieId(doc, movie, movieId),
                       alternate /\ Truthy(MovieId(doc, movie, movieId)))

\* ---------------------------------------------------------------- theaters

\* Lines 245-264 of _parseTheater: the Url object itself is handed to
\* querystring.parse.
TheaterId(doc, theater, theaterId) ==
    IF theaterId.t # "undefined" THEN theaterId
    ELSE LET cloakedUrl == CloakedUrl(doc, theater)
         IN  IF cloakedUrl.t = "href"
             THEN LET tid == QsParse(UrlParse(cloakedUrl)).tid
                  IN  IF tid.t # "undefined" THEN tid ELSE JsFalse
             ELSE JsFalse

\* The nested movies of a theater-first theater, parsed in order.
ParsedMovies(doc, theater) ==
    [i \in 1..Len(theater.movies) |-> ParseMovie(doc, theater.movies[i], FALSE, Undefined)]

\* Lines 268-280: the movie-first record of a theater.
AlternateTheaterData(theater, id, showtimes) ==
    [t |-> "theater",
     id |-> id,
     name |-> JsStr(theater.name),
     address |-> JsStr(theater.address),
     phoneNumber |-> Absent,
     movies |-> Absent,
     showtimes |-> JsList(showtimes.showtimes),
     showtime_tickets |-> IF showtimes.showtime_tickets.t = "map"
                          THEN showtimes.showtime_tickets ELSE Absent]

\* Lines 282-296: the theater-first record, from the parsed nested movies
\* (a movie that came back false is left out) and the split info line.
TheaterData(theater, id, info, parsed) ==
    IF \E i \in 1..Len(parsed) : parsed[i].ret.t = "TypeError"
    THEN [ret |-> Thrown, dom |-> theater]
    ELSE [ret |->
            [t |-> "theater",
             id |-> id,
             name |-> JsStr(theater.name),
             address |-> JsStr(Trim(info[1])),
             phoneNumber |-> JsStr(IF Len(info) >= 2 THEN Trim(info[2]) ELSE <<>>),
             movies |-> JsList(SelectSeq([i \in 1..Len(parsed) |-> parsed[i].ret],
                                         LAMBDA r : r.t = "movie")),
             showtimes |-> Absent,
             showtime_tickets |-> Absent],
          dom |-> [theater EXCEPT !.movies = [i \in 1..Len(parsed) |-> parsed[i].dom]]]

\* Showtimes.prototype._parseTheater, with the result shaped as ParseMovie's.
ParseTheater(doc, theater, alternate, theaterId) ==
    IF alternate
    THEN [ret |-> AlternateTheaterData(theater, TheaterId(doc, theater, theaterId),
                                       ParseShowtimes(theater)),
          dom |-> theater]
    ELSE TheaterData(theater, TheaterId(doc, theater, theaterId),
                     Split(theater.info, DASH), ParsedMovies(doc, theater))

\* ------------------------------------------------------------------ state

VARIABLES
    page,       \* this.page: 0 while undefined (a fresh instance), else the page number
    theaters,   \* this.theaters: the array it refers to (0: undefined)
    movies,     \* this.movies: the array it refers to (0: undefined)
    heap,       \* the arrays the calls created, by reference
    pageLimit,  \* this.pageLimit
    calls,      \* the top-level calls: what each asked for, fetched and delivered
    thing,      \* the fragment an extraction helper is applied to, in its page
    outs        \* what the successive extractions of thing returned

vars == <<page, theaters, movies, heap, pageLimit, calls, thing, outs>>

instanceVars == <<page, theaters, movies, heap, pageLimit, calls>>

\* -------------------------------------------------- bounds and input sets

MaxCalls == 2
NumPages == 3
MaxTimes == 3
MaxInfo == 3
MaxExtractions == 2

\* this.pageLimit when options.pageLimit is not given (line 27).
DefaultPageLimit == 999

\* 10 results per page (line 556).
PageSize == 10

SeqsUpTo(S, n) == UNION {[1..k -> S] : k \in 0..n}

LRM == "U+200E"

\* Time texts as the source pages hold them: with or without a meridiem, with
\* the invisible mark the service puts after a time, with stray whitespace.
TimeTexts ==
    { <<"1">>, <<"1", "a", "m">>, <<"2", "p", "m">>,
      <<"3", LRM>>, <<"4", "a", "m", LRM>>, <<" ", "5">> }

TicketHrefs == {Href(JsStr(<<"u">>), Undefined, Undefined), Href(Undefined, Undefined, Undefined)}

\* "10:00 11:20am 1:00 2:20 6:50pm", with one character per hour.
FixtureTimes ==
    << <<"A", ":", "0">>, <<"B", ":", "2", "a", "m">>, <<"1", ":", "0">>,
       <<"2", ":", "2">>, <<"6", ":", "5", "p", "m">> >>

\* A fragment with its times as one text blob (no ticket anchors).
TimesBlob(toks) == [times |-> Join(toks, <<" ">>), anchors |-> <<>>]

\* A fragment with one ticket anchor per time.
TimesAnchors(toks, hrefs) ==
    [times |-> <<>>, anchors |-> [i \in 1..Len(toks) |-> [time |-> toks[i], href |-> hrefs[i]]]]

\* The fragments with up to n times.
ShowtimeThings(n) ==
    {TimesBlob(toks) : toks \in SeqsUpTo(TimeTexts, n) \cup {FixtureTimes}}
    \cup {TimesAnchors(toks, [i \in 1..Len(toks) |-> h]) :
            toks \in (SeqsUpTo(TimeTexts, n) \ {<<>>}) \cup {FixtureTimes}, h \in TicketHrefs}

\* The instance as the constructor leaves it, with no call made.
FreshInstance(limit) ==
    /\ page = 0
    /\ theaters = 0
    /\ movies = 0
    /\ heap = <<>>
    /\ pageLimit = limit
    /\ calls = <<>>

\* ------------------------------------------------ showtime extraction runs

InitShowtimes ==
    /\ FreshInstance(DefaultPageLimit)
    /\ thing \in {[op |-> "showtimes", dom |-> d] : d \in ShowtimeThings(MaxTimes)}
    /\ outs = <<>>

\* _parseShowtimes applied to the fragment.
ExtractShowtimes ==
    /\ thing.op = "showtimes"
    /\ Len(outs) < MaxExtractions
    /\ outs' = Append(outs, ParseShowtimes(thing.dom))
    /\ UNCHANGED <<thing, instanceVars>>

NextShowtimes == ExtractShowtimes

SpecShowtimes == InitShowtimes /\ [][NextShowtimes]_vars

\* What getTime makes of a token before it looks for a meridiem.
Normalised(tok) == Trim(RemoveNonAsciiStr(tok))

HasMeridiem(tok) == MatchMeridiem(tok) # <<>>

\* The later tokens of toks, after position i, that state a meridiem.
LaterMarked(toks, i) == {j \in (i + 1)..Len(toks) : HasMeridiem(Normalised(toks[j]))}

Nearest(S) == CHOOSE j \in S : \A k \in S : j <= k

\* out is the back-inference of toks, each token first taken through norm.
BackInferred(toks, out, norm(_)) ==
    /\ Len(out) = Len(toks)
    /\ \A i \in 1..Len(toks) :
         IF HasMeridiem(norm(toks[i])) THEN out[i] = norm(toks[i])
         ELSE IF LaterMarked(toks, i) # {}
              THEN out[i] = norm(toks[i]) \o MatchMeridiem(Normalised(toks[Nearest(LaterMarked(toks, i))]))
              ELSE out[i] = norm(toks[i])

Identity(tok) == tok

\* C7 as stated: the output has the input's length and order, a token that
\* carries am/pm comes out unchanged, a marker-less token gets the meridiem of
\* the nearest later marked token appended, and marker-less tokens after the
\* last marked one stay as they are.
C7_AsStated ==
    \A k \in 1..Len(outs) :
        thing.op = "showtimes" => BackInferred(TimeTokens(thing.dom), outs[k].showtimes, Identity)

\* C7, amended: the same, with every token first stripped of its non-ASCII
\* characters and then trimmed; it is the stripped token that comes out
\* unchanged or gets the meridiem appended.
C7_BackInference ==
    \A k \in 1..Len(outs) :
        thing.op = "showtimes" => BackInferred(TimeTokens(thing.dom), outs[k].showtimes, Normalised)

\* C7's case: an extraction ran on a sequence with a marker-less token before
\* a marked one, a marked token carrying the invisible mark, and a marker-less
\* token after the last marked one.
C7_Witness ==
    /\ thing.op = "showtimes"
    /\ Len(outs) >= 1
    /\ LET toks == TimeTokens(thing.dom)
       IN  /\ Len(toks) = 3
           /\ ~HasMeridiem(Normalised(toks[1]))
           /\ HasMeridiem(Normalised(toks[2])) /\ toks[2] # Normalised(toks[2])
           /\ ~HasMeridiem(Normalised(toks[3]))
           /\ outs[1].showtimes[1] = toks[1] \o AM

\* C7's fixture: "10:00 11:20am 1:00 2:20 6:50pm".
C7_Fixture ==
    (thing.op = "showtimes" /\ TimeTokens(thing.dom) = FixtureTimes /\ Len(outs) >= 1)
    => outs[1].showtimes =
         << <<"A", ":", "0", "a", "m">>, <<"B", ":", "2", "a", "m">>, <<"1", ":", "0", "p", "m">>,
            <<"2", ":", "2", "p", "m">>, <<"6", ":", "5", "p", "m">> >>

\* ------------------------------------------- movie and theater fragments

\* "1 hr 45 min", "Rated PG-13", "Action/Adventure", "Documentary",
\* "Director: X", "Cast: A, B"
RuntimeText == <<"1", " ", "h", "r", " ", "4", "5", " ", "m", "i", "n">>
RatedText == <<"R", "a", "t", "e", "d", " ", "P", "G", "-", "1", "3">>
GenreText == <<"A", "c", "t", "i", "o", "n", "/", "A", "d", "v", "e", "n", "t", "u", "r", "e">>
DocumentaryText == <<"D", "o", "c", "u", "m", "e", "n", "t", "a", "r", "y">>
DirectorText == <<"D", "i", "r", "e", "c", "t", "o", "r", ":", " ", "X">>
CastText == <<"C", "a", "s", "t", ":", " ", "A", ",", " ", "B">>

MidHref == Href(JsStr(<<"u">>), JsStr(<<"m", "1">>), Undefined)
TidHref == Href(Undefined, Undefined, JsStr(<<"t", "1">>))
PlainHref == Href(JsStr(<<"u">>), Undefined, Undefined)

\* The pieces an info line is made of.
InfoPieces ==
    { TextNode(RuntimeText), TextNode(RatedText), TextNode(GenreText),
      TextNode(DocumentaryText), TextNode(DirectorText), TextNode(CastText),
      ANode(TrailerLabel, PlainHref) }

\* Between two pieces: " - " or a line break.
Separators == {TextNode(DASH), BrNode}

RECURSIVE Interleave(_, _)
Interleave(pieces, seps) ==
    IF Len(pieces) <= 1 THEN pieces
    ELSE <<pieces[1], seps[1]>> \o Interleave(Tail(pieces), Tail(seps))

\* The info lines of up to n pieces.
InfoContents(n) ==
    UNION { {Interleave(ps, ss) : ps \in [1..k -> InfoPieces],
                                  ss \in [1..(IF k = 0 THEN 0 ELSE k - 1) -> Separators]}
            : k \in 0..n }

\* "1 hr 45 min - Action / Drama<U+00FC>/" and "1 hr 45 min - ": a genre with
\* spaces round the slash and a trailing slash, and an empty second token.
OddInfoContents ==
    { <<TextNode(RuntimeText), TextNode(DASH),
        TextNode(<<"A", " ", "/", " ", "D", "U+00FC", "/">>)>>,
      <<TextNode(RuntimeText), TextNode(DASH)>> }

MovieName == <<"M">>

\* A movie fragment: the text of its name element, the href of the name's
\* anchor, its last .info element, its .times, its description span and the
\* content of #SynopsisSecond0 (movie-first, single lookup), its nested
\* theater fragments and whether p.show_more is there (movie-first).
MovieDom(name, link, info, synopsis) ==
    [name |-> name, link |-> link, info |-> info,
     times |-> <<"1", " ", "2", "p", "m">>, anchors |-> <<>>,
     description |-> <<"d">>, synopsis |-> synopsis,
     theaters |-> <<>>, show_more |-> FALSE]

MoreControl == ElNode(<<"m", "o", "r", "e">>)

SynopsisContents ==
    { <<>>, <<MoreControl>>, <<TextNode(<<"s">>), MoreControl>>,
      <<ElNode(<<"s">>), MoreControl>> }

Links == {Undefined, PlainHref, MidHref}

MovieDoms(k) ==
    {MovieDom(MovieName, MidHref, Element(c), <<TextNode(<<"s">>), MoreControl>>) :
        c \in InfoContents(k) \cup OddInfoContents}
    \cup {MovieDom(MovieName, MidHref, Element(<<TextNode(RuntimeText)>>), syn) :
            syn \in SynopsisContents}
    \cup {MovieDom(n, l, i, <<MoreControl>>) :
            n \in {<<>>, MovieName}, l \in Links,
            i \in {Undefined, Element(<<TextNode(DocumentaryText)>>)}}

\* The loaded page, as far as the helpers read it: the href of the first
\* link of the left navigation.
Docs == {[leftNav |-> Undefined], [leftNav |-> Href(Undefined, JsStr(<<"m", "2">>), JsStr(<<"t", "2">>))]}

\* How the code calls _parseMovie: theater-first without an id (from
\* _parseTheater), movie-first without one (getMovies), movie-first with the
\* id asked for (getMovie).
MovieModes ==
    { [alternate |-> FALSE, id |-> Undefined], [alternate |-> TRUE, id |-> Undefined],
      [alternate |-> TRUE, id |-> JsStr(<<"m", "9">>)] }

\* A theater fragment: name, the href of the name's anchor, the text of
\* .desc .info, the text of .address, its .times and its nested movie
\* fragments.
TheaterDom(name, link, movieDoms) ==
    [name |-> name, link |-> link,
     info |-> <<"S", "t", " ", "-", " ", "5", "5", "5">>, address |-> <<"S", "t">>,
     times |-> <<"1", " ", "2", "p", "m">>, anchors |-> <<>>,
     movies |-> movieDoms]

NestedMovieDoms ==
    { MovieDom(MovieName, MidHref, Element(<<TextNode(RuntimeText), BrNode, TextNode(GenreText)>>), <<>>),
      MovieDom(<<>>, Undefined, Undefined, <<>>),
      MovieDom(MovieName, Undefined, Undefined, <<>>) }

TheaterDoms ==
    {TheaterDom(n, l, ms) :
        n \in {<<>>, <<"T">>}, l \in {Undefined, PlainHref, TidHref},
        ms \in SeqsUpTo(NestedMovieDoms, 2)}

TheaterModes ==
    { [alternate |-> FALSE, id |-> Undefined], [alternate |-> TRUE, id |-> Undefined],
      [alternate |-> FALSE, id |-> JsStr(<<"t", "9">>)] }

ExtractionThings(k) ==
    {[op |-> "movie", doc |-> doc, dom |-> d, alternate |-> m.alternate, id |-> m.id] :
        doc \in Docs, d \in MovieDoms(k), m \in MovieModes}
    \cup {[op |-> "theater", doc |-> doc, dom |-> d, alternate |-> m.alternate, id |-> m.id] :
            doc \in Docs, d \in TheaterDoms, m \in TheaterModes}

\* ------------------------------------------------ fragment extraction runs

InitExtract ==
    /\ FreshInstance(DefaultPageLimit)
    /\ thing \in ExtractionThings(MaxInfo)
    /\ outs = <<>>

\* _parseMovie applied to the fragment of the loaded page; a thrown error
\* ends the run.
ExtractMovie ==
    /\ thing.op = "movie"
    /\ Len(outs) < MaxExtractions
    /\ \A k \in 1..Len(outs) : outs[k].t # "TypeError"
    /\ LET r == ParseMovie(thing.doc, thing.dom, thing.alternate, thing.id)
       IN  /\ outs' = Append(outs, r.ret)
           /\ thing' = [thing EXCEPT !.dom = r.dom]
    /\ UNCHANGED instanceVars

\* _parseTheater applied to the fragment of the loaded page.
ExtractTheater ==
    /\ thing.op = "theater"
    /\ Len(outs) < MaxExtractions
    /\ \A k \in 1..Len(outs) : outs[k].t # "TypeError"
    /\ LET r == ParseTheater(thing.doc, thing.dom, thing.alternate, thing.id)
       IN  /\ outs' = Append(outs, r.ret)
           /\ thing' = [thing EXCEPT !.dom = r.dom]
    /\ UNCHANGED instanceVars

NextExtract == ExtractMovie \/ ExtractTheater

SpecExtract == InitExtract /\ [][NextExtract]_vars

\* The fields C8 names, of a returned movie record.
DerivedFields(m) ==
    <<m.runtime, m.rating, m.genre, m.director, m.cast, m.description, m.showtimes>>

\* C8 as stated: extracting the same fragment of the same loaded page twice
\* gives structurally identical records (for a movie: the same runtime,
\* rating, genre, director, cast, description and showtimes).
C8_Idempotent ==
    Len(outs) = 2 =>
        /\ outs[1].t = outs[2].t
        /\ outs[1].t = "movie" => DerivedFields(outs[1]) = DerivedFields(outs[2])
        /\ outs[1].t = "theater" => outs[1] = outs[2]

\* The part of C8 the code keeps: extraction in the theater-first layout
\* (_parseTheater, and _parseMovie as it calls it) is repeatable.
C8_TheaterFirstRepeatable ==
    (Len(outs) = 2 /\ ~thing.alternate) =>
        /\ outs[1].t = outs[2].t
        /\ outs[1] = outs[2]

\* What C10 says the info tokens give.  tok0 is a runtime iff it matches the
\* duration pattern; with a runtime, tok1 is the rating iff it is a "Rated"
\* token and the genre candidate is the token after it.
C10_HasRating(info) == IsRuntime(info[1]) /\ Len(info) >= 2 /\ Contains(info[2], RATED)

C10_Candidate(info) == IF C10_HasRating(info) THEN 3 ELSE 2

C10_Runtime(info) ==
    IF IsRuntime(info[1]) THEN JsStr(RemoveNonAsciiStr(Trim(info[1]))) ELSE JsFalse

C10_Rating(info) ==
    IF C10_HasRating(info)
    THEN JsStr(RemoveNonAsciiStr(Trim(ReplaceFirst(info[2], RATED, <<>>))))
    ELSE JsFalse

C10_Genre(info) ==
    IF ~IsRuntime(info[1]) THEN JsStr(RemoveNonAsciiStr(Trim(info[1])))
    ELSE IF C10_Candidate(info) > Len(info) THEN JsFalse
    ELSE IF MatchesLinkLabel(info[C10_Candidate(info)]) THEN JsFalse
    ELSE RemoveNonAsciiCharacters(JsList(Split(Trim(info[C10_Candidate(info)]), <<"/">>)))

\* A non-empty list of non-empty trimmed tokens.
C10_WellFormedList(g) ==
    g.t = "list" =>
        /\ Len(g.v) >= 1
        /\ \A i \in 1..Len(g.v) : g.v[i] # <<>> /\ Trim(g.v[i]) = g.v[i]

\* C10 as stated: runtime, rating and genre of a returned movie record are
\* what the token classification of the claim gives (a missing genre
\* candidate gives false), and a genre list is a non-empty list of non-empty
\* trimmed tokens.
C10_Classification ==
    (thing.op = "movie" /\ Len(outs) = 1 /\ outs[1].t = "movie") =>
        /\ outs[1].runtime = C10_Runtime(InfoTokens(thing.dom))
        /\ outs[1].rating = C10_Rating(InfoTokens(thing.dom))
        /\ outs[1].genre = C10_Genre(InfoTokens(thing.dom))
        /\ C10_WellFormedList(outs[1].genre)

\* The three fixtures of C10, which the code does give.
C10_Fixtures ==
    (thing.op = "movie" /\ Len(outs) = 1 /\ outs[1].t = "movie") =>
        /\ InfoTokens(thing.dom) = <<RuntimeText, RatedText, GenreText>> =>
              /\ outs[1].runtime = JsStr(RuntimeText)
              /\ outs[1].rating = JsStr(<<"P", "G", "-", "1", "3">>)
              /\ outs[1].genre = JsList(<< <<"A", "c", "t", "i", "o", "n">>,
                                           <<"A", "d", "v", "e", "n", "t", "u", "r", "e">> >>)
        /\ InfoTokens(thing.dom) = <<RuntimeText, TrailerLabel>> =>
              /\ outs[1].runtime = JsStr(RuntimeText)
              /\ outs[1].rating = JsFalse
              /\ outs[1].genre = JsFalse
        /\ InfoTokens(thing.dom) = <<DocumentaryText>> =>
              /\ outs[1].runtime = JsFalse
              /\ outs[1].rating = JsFalse
              /\ outs[1].genre = JsStr(DocumentaryText)

\* What C11 says the id is when none is supplied: the parameter of the
\* fragment's link, or of the fallback link when the fragment has none, and
\* false when there is no such link or it has no such parameter.
C11_Tid(doc, theater) ==
    IF CloakedUrl(doc, theater).t = "href" /\ CloakedUrl(doc, theater).tid.t = "str"
    THEN CloakedUrl(doc, theater).tid ELSE JsFalse

C11_Mid(doc, movie) ==
    IF CloakedUrl(doc, movie).t = "href" /\ CloakedUrl(doc, movie).mid.t = "str"
    THEN CloakedUrl(doc, movie).mid ELSE JsFalse

\* An extraction ran with no id supplied, on a fragment the helper reads an
\* id for: any theater; a movie with a name and, movie-first, an info line.
C11_Resolved ==
    /\ thing.op \in {"movie", "theater"}
    /\ Len(outs) >= 1
    /\ thing.id = Undefined
    /\ thing.op = "movie" =>
          thing.dom.name # <<>> /\ (thing.alternate => thing.dom.info.t = "el")

\* C11 as stated: with no id supplied, a returned theater record has the tid
\* of its link (else of the fallback link) as id, or false when there is no
\* link or no tid in it; a movie gives a record, never an error, whose id is
\* the mid found the same way, or false.
C11_IdResolution ==
    C11_Resolved =>
        /\ (thing.op = "theater" /\ outs[1].t = "theater") =>
              outs[1].id = C11_Tid(thing.doc, thing.dom)
        /\ thing.op = "movie" =>
              outs[1].t = "movie" /\ outs[1].id = C11_Mid(thing.doc, thing.dom)

\* The part of C11 the code keeps for theaters: without a link and a
\* fallback, or without a tid in the link, the id is false.
C11_TheaterAbsent ==
    (C11_Resolved /\ thing.op = "theater" /\ outs[1].t = "theater"
       /\ C11_Tid(thing.doc, thing.dom) = JsFalse) => outs[1].id = JsFalse

\* The part of C11 the code keeps for movies: a link (or fallback link) with
\* mid=V gives the id V.
C11_MovieMidFound ==
    (C11_Resolved /\ thing.op = "movie" /\ C11_Mid(thing.doc, thing.dom) # JsFalse) =>
        outs[1].t = "movie" /\ outs[1].id = C11_Mid(thing.doc, thing.dom)

\* C11 for theaters alone: a link with tid=V gives the id V.
C11_TheaterTidFound ==
    (C11_Resolved /\ thing.op = "theater" /\ outs[1].t = "theater") =>
        outs[1].id = C11_Tid(thing.doc, thing.dom)

\* C11 for movies alone, when the link has no mid: the id is false.
C11_MovieNoMid ==
    (C11_Resolved /\ thing.op = "movie" /\ outs[1].t = "movie") =>
        outs[1].id = C11_Mid(thing.doc, thing.dom)

\* C11 for movies alone, without a link and a fallback: no error.
C11_MovieNoLink ==
    (C11_Resolved /\ thing.op = "movie") => outs[1].t # "TypeError"

\* ------------------------------------------------------------ the service

\* The result set the service holds for the location: NumPages pages of
\* theaters (and of movies), every page but the last with a "Next" link.
\* On the odd pages a placeholder fragment without a name sits between two
\* named ones.
NestedMovies ==
    << MovieDom(MovieName, MidHref, Element(<<TextNode(RuntimeText), TextNode(DASH), TextNode(GenreText)>>), <<>>),
       MovieDom(<<>>, Undefined, Undefined, <<>>) >>

TheaterFrag(name) == TheaterDom(name, TidHref, NestedMovies)

\* A theater nested in a movie of the movie-first layout.
NestedTheater(name) == TheaterDom(name, TidHref, <<>>)

MovieFrag(name, more) ==
    [MovieDom(name, PlainHref, Element(<<TextNode(RuntimeText), BrNode, TextNode(DirectorText)>>), <<>>)
        EXCEPT !.theaters = <<NestedTheater(<<"T">>), NestedTheater(<<>>)>>, !.show_more = more]

TheaterFrags(p) ==
    IF p % 2 = 1
    THEN <<TheaterFrag(<<"T", ToString(p)>>), TheaterFrag(<<>>), TheaterFrag(<<"U", ToString(p)>>)>>
    ELSE <<TheaterFrag(<<"T", ToString(p)>>)>>

MovieFrags(p) ==
    IF p % 2 = 1
    THEN <<MovieFrag(<<"M", ToString(p)>>, TRUE), MovieFrag(<<>>, FALSE), MovieFrag(<<"N", ToString(p)>>, FALSE)>>
    ELSE <<MovieFrag(<<"M", ToString(p)>>, FALSE)>>

ResultsText == <<"N", "o", "n", "e">>
LocationName == JsStr(<<"L", "o", "c">>)
DayLabel == JsStr(<<"D", "a", "y">>)
SideHref == Href(Undefined, JsStr(<<"m", "2">>), JsStr(<<"t", "2">>))

\* A response body, as far as the handlers read it: the .theater or .movie
\* fragments, whether #title_bar and the breadcrumb match their patterns,
\* whether #navbar has a "Next" link, the text of #results, and the first
\* link of the left navigation.
Body(kind, frags, title, next) ==
    [kind |-> kind, frags |-> frags, title |-> title, next |-> next,
     results |-> ResultsText, leftNav |-> SideHref]

EmptyBody == Body("empty", <<>>, TRUE, FALSE)

\* start = (page - 1) * 10 asks for this page.
PageOf(start) == start \div PageSize + 1

ListedFrags(op, p) == IF op = "getTheaters" THEN TheaterFrags(p) ELSE MovieFrags(p)

\* What the service may answer a listing request with: the page asked for,
\* that page with the title bar in another shape, or a page without results
\* (the only answer past the last page).
ListingBodies(op, start) ==
    {EmptyBody} \cup
    IF PageOf(start) <= NumPages
    THEN { Body("page", ListedFrags(op, PageOf(start)), TRUE, PageOf(start) < NumPages),
           Body("notitle", ListedFrags(op, PageOf(start)), FALSE, PageOf(start) < NumPages) }
    ELSE {}

SingleFrag(op, name) ==
    IF op = "getTheater" THEN TheaterFrag(name) ELSE MovieFrag(name, FALSE)

\* What the service may answer a lookup by id with: the page of the theater
\* or movie, one whose fragment has no name, one without fragments, or the
\* page with the title bar in another shape.
SingleBodies(op) ==
    { Body("page", <<SingleFrag(op, <<"S">>)>>, TRUE, FALSE),
      Body("unnamed", <<SingleFrag(op, <<>>)>>, TRUE, FALSE),
      EmptyBody,
      Body("notitle", <<SingleFrag(op, <<"S">>)>>, FALSE, FALSE) }

JsNull == [t |-> "null"]
NetworkError == JsStr(<<"E", "T", "I", "M", "E", "D", "O", "U", "T">>)
UnknownError == JsStr(<<"U", "n", "k", "n", "o", "w", "n">>)

\* How request() may call back: a transport error (no response), a response
\* with another status, a 200.
Outcomes ==
    { [error |-> NetworkError, statusCode |-> 0],
      [error |-> JsNull, statusCode |-> 500],
      [error |-> JsNull, statusCode |-> 200] }

OutcomeKind(o) ==
    IF o.error # JsNull THEN "neterr" ELSE IF o.statusCode # 200 THEN "non200" ELSE "ok"

\* The id the lookups are asked for.
AskedId == JsStr(<<"i", "d">>)

\* The page limits an instance may be made with (options.pageLimit).
PageLimits == {0, 1, 2, DefaultPageLimit}

\* --------------------------------------------------------------- requests

\* (this.page - 1) * 10 is NaN while this.page is undefined.
NaN == -1

\* The start parameter _request sends (line 556).
Start(pg) == IF pg = 0 THEN NaN ELSE (pg - 1) * PageSize

\* A slip in line 574: only the transport error is looked at.
RequestFails_ErrorOnly(error, statusCode) == error # JsNull

\* Line 574: error || response.statusCode !== 200
RequestFails(error, statusCode) == error # JsNull \/ statusCode # 200

\* Lines 575-579: what cb is called with when the request failed.
FailureValue(error) == IF error = JsNull THEN UnknownError ELSE error

\* A top-level call as it starts: its operation, the requests it sent (by
\* start), what came back for each, and the calls of its callback.
NewCall(op, start) ==
    [op |-> op, status |-> "awaiting", fetches |-> <<start>>, got |-> <<>>, cbs |-> <<>>]

Awaiting(c) == c \in 1..Len(calls) /\ calls[c].status = "awaiting"

\* The call's request was answered: how request() called back and, for a
\* 200, with which kind of page (no page is read otherwise).
Answered(cs, c, o, body) ==
    [cs EXCEPT ![c].got = Append(@, [outcome |-> OutcomeKind(o),
                                     body |-> IF OutcomeKind(o) = "ok" THEN body.kind ELSE "none"])]

\* cb(err, data) was called and the call is over.
CalledBack(cs, c, err, data) ==
    [cs EXCEPT ![c].status = "done", ![c].cbs = Append(@, [err |-> err, data |-> data])]

\* The handler threw: the exception leaves the request callback, cb is not
\* called.
Threw(cs, c) == [cs EXCEPT ![c].status = "thrown"]

\* The call sent its next request.
Requested(cs, c, start) == [cs EXCEPT ![c].fetches = Append(@, start)]

\* The object the handlers hand to cb on success; data is the array by
\* reference (0 for a single record) and as it is at that moment.
Result(ref, data) ==
    [t |-> "result", location |-> LocationName, date |-> DayLabel, ref |-> ref, data |-> data]

\* ------------------------------------------------------ the page handlers

Last(q) == q[Len(q)]

DocOf(body) == [leftNav |-> body.leftNav]

\* The first result that is a thrown error, Len + 1 when there is none.
FirstThrow(rs) ==
    IF \E i \in 1..Len(rs) : rs[i].t = "TypeError"
    THEN CHOOSE i \in 1..Len(rs) : rs[i].t = "TypeError" /\ \A j \in 1..(i - 1) : rs[j].t # "TypeError"
    ELSE Len(rs) + 1

\* What an .each loop over the fragments pushes: the records made before
\* any throw, those without a name left out (a movie without a name came
\* back false).
Pushed(rs) ==
    SelectSeq(SubSeq(rs, 1, FirstThrow(rs) - 1),
              LAMBDA r : r.t \in {"theater", "movie"} /\ r.name.v # <<>>)

\* getTheaters, line 67, for each .theater of the page.
ListedTheaters(body) ==
    [i \in 1..Len(body.frags) |-> ParseTheater(DocOf(body), body.frags[i], FALSE, Undefined).ret]

\* Lines 167-169 and 216-218: the movie's nested theaters, all of them.
NestedTheaters(doc, movie) ==
    JsList([j \in 1..Len(movie.theaters) |-> ParseTheater(doc, movie.theaters[j], TRUE, Undefined).ret])

JsTrue == [t |-> "true"]

\* Lines 164-173: what getMovies makes of a parsed movie.
WithTheaters(doc, movie, movieData, more) ==
    IF movieData.t = "movie"
    THEN [movieData EXCEPT !.showtimes = Absent,
                           !.theaters = NestedTheaters(doc, movie),
                           !.more_theaters = IF more THEN JsTrue ELSE Absent]
    ELSE movieData

\* getMovies, lines 157-176, for each .movie of the page.
ListedMovies(body) ==
    [i \in 1..Len(body.frags) |->
        WithTheaters(DocOf(body), body.frags[i],
                     ParseMovie(DocOf(body), body.frags[i], TRUE, Undefined).ret,
                     body.frags[i].show_more)]

\* $('.theater') and $('.movie') of a lookup page: the fragment, or a
\* selection of nothing, whose texts are empty and attributes undefined.
NoTheater ==
    [name |-> <<>>, link |-> Undefined, info |-> <<>>, address |-> <<>>,
     times |-> <<>>, anchors |-> <<>>, movies |-> <<>>]

NoMovie ==
    [name |-> <<>>, link |-> Undefined, info |-> Undefined, times |-> <<>>, anchors |-> <<>>,
     description |-> <<>>, synopsis |-> <<>>, theaters |-> <<>>, show_more |-> FALSE]

Selected(body, none) == IF Len(body.frags) = 0 THEN none ELSE body.frags[1]

\* Lines 75-86 (and 178-190), after the loop pushed onto the array ref: the
\* result is delivered when there is no "Next" link or the page limit is
\* reached, else the next page is asked for.  cs is calls with the answer
\* logged, h the heap after the pushes.
Paginate(c, cs, body, ref, h, threw) ==
    /\ heap' = h
    /\ IF threw
       THEN /\ calls' = Threw(cs, c)
            /\ page' = page
       ELSE IF ~body.next \/ page = pageLimit
       THEN /\ calls' = CalledBack(cs, c, JsNull, Result(ref, h[ref]))
            /\ page' = page
       ELSE /\ page' = page + 1
            /\ calls' = Requested(cs, c, Start(page + 1))

\* The handler of getTheaters, lines 53-87.
TheatersHandler(c, cs, body) ==
    IF Len(body.frags) = 0
    THEN /\ calls' = CalledBack(cs, c, JsStr(body.results), Undefined)
         /\ UNCHANGED <<page, heap>>
    ELSE IF ~body.title
    THEN /\ calls' = Threw(cs, c)
         /\ UNCHANGED <<page, heap>>
    ELSE Paginate(c, cs, body, theaters,
                  [heap EXCEPT ![theaters] = @ \o Pushed(ListedTheaters(body))],
                  FirstThrow(ListedTheaters(body)) <= Len(body.frags))

\* The handler of getMovies, lines 143-191.
MoviesHandler(c, cs, body) ==
    IF Len(body.frags) = 0
    THEN /\ calls' = CalledBack(cs, c, JsStr(body.results), Undefined)
         /\ UNCHANGED <<page, heap>>
    ELSE IF ~body.title
    THEN /\ calls' = Threw(cs, c)
         /\ UNCHANGED <<page, heap>>
    ELSE Paginate(c, cs, body, movies,
                  [heap EXCEPT ![movies] = @ \o Pushed(ListedMovies(body))],
                  FirstThrow(ListedMovies(body)) <= Len(body.frags))

\* The handler of getTheater, lines 100-116.  !$('.showtimes') is never
\* true: a selection is an object.
TheaterHandler(c, cs, body, theaterData) ==
    /\ calls' = IF ~body.title \/ theaterData.t = "TypeError" THEN Threw(cs, c)
                ELSE CalledBack(cs, c, JsNull, Result(0, theaterData))
    /\ UNCHANGED <<page, heap>>

\* The handler of getMovie, lines 204-227: movieData.theaters = [] throws
\* (strict mode) when _parseMovie came back false; the title is matched
\* after the movie is parsed.
MovieHandler(c, cs, body, movieData) ==
    /\ calls' = IF movieData.t # "movie" \/ ~body.title THEN Threw(cs, c)
                ELSE CalledBack(cs, c, JsNull, Result(0, movieData))
    /\ UNCHANGED <<page, heap>>

\* The callback _request gives request(), lines 573-585.
RequestFailed(c, cs, error) ==
    /\ calls' = CalledBack(cs, c, FailureValue(error), Undefined)
    /\ UNCHANGED <<page, heap>>

\* ---------------------------------------------------------------- actions

\* getTheaters(cb) or getTheaters(query, cb), lines 39-52 and _request: a
\* new array, page 1, the first request.
GetTheaters ==
    /\ Len(calls) < MaxCalls
    /\ page' = 1
    /\ heap' = Append(heap, <<>>)
    /\ theaters' = Len(heap) + 1
    /\ calls' = Append(calls, NewCall("getTheaters", Start(1)))
    /\ UNCHANGED <<movies, pageLimit, thing, outs>>

\* getMovies(cb) or getMovies(query, cb), lines 129-142 and _request.
GetMovies ==
    /\ Len(calls) < MaxCalls
    /\ page' = 1
    /\ heap' = Append(heap, <<>>)
    /\ movies' = Len(heap) + 1
    /\ calls' = Append(calls, NewCall("getMovies", Start(1)))
    /\ UNCHANGED <<theaters, pageLimit, thing, outs>>

\* getTheater(theaterId, cb), lines 97-99 and _request, which reads
\* this.page as it is.
GetTheater ==
    /\ Len(calls) < MaxCalls
    /\ calls' = Append(calls, NewCall("getTheater", Start(page)))
    /\ UNCHANGED <<page, theaters, movies, heap, pageLimit, thing, outs>>

\* getMovie(movieId, cb), lines 201-203 and _request.
GetMovie ==
    /\ Len(calls) < MaxCalls
    /\ calls' = Append(calls, NewCall("getMovie", Start(page)))
    /\ UNCHANGED <<page, theaters, movies, heap, pageLimit, thing, outs>>

\* request() calls back for a getTheaters request.
TheatersResponse(c) ==
    /\ Awaiting(c)
    /\ calls[c].op = "getTheaters"
    /\ \E o \in Outcomes, body \in ListingBodies("getTheaters", Last(calls[c].fetches)) :
          IF RequestFails(o.error, o.statusCode)
          THEN RequestFailed(c, Answered(calls, c, o, body), o.error)
          ELSE TheatersHandler(c, Answered(calls, c, o, body), body)
    /\ UNCHANGED <<theaters, movies, pageLimit, thing, outs>>

\* request() calls back for a getMovies request.
MoviesResponse(c) ==
    /\ Awaiting(c)
    /\ calls[c].op = "getMovies"
    /\ \E o \in Outcomes, body \in ListingBodies("getMovies", Last(calls[c].fetches)) :
          IF RequestFails(o.error, o.statusCode)
          THEN RequestFailed(c, Answered(calls, c, o, body), o.error)
          ELSE MoviesHandler(c, Answered(calls, c, o, body), body)
    /\ UNCHANGED <<theaters, movies, pageLimit, thing, outs>>

\* request() calls back for a getTheater request.
TheaterResponse(c) ==
    /\ Awaiting(c)
    /\ calls[c].op = "getTheater"
    /\ \E o \in Outcomes, body \in SingleBodies("getTheater") :
          IF RequestFails(o.error, o.statusCode)
          THEN RequestFailed(c, Answered(calls, c, o, body), o.error)
          ELSE TheaterHandler(c, Answered(calls, c, o, body), body,
                              ParseTheater(DocOf(body), Selected(body, NoTheater), FALSE, AskedId).ret)
    /\ UNCHANGED <<theaters, movies, pageLimit, thing, outs>>

\* request() calls back for a getMovie request.
MovieResponse(c) ==
    /\ Awaiting(c)
    /\ calls[c].op = "getMovie"
    /\ \E o \in Outcomes, body \in SingleBodies("getMovie") :
          IF RequestFails(o.error, o.statusCode)
          THEN RequestFailed(c, Answered(calls, c, o, body), o.error)
          ELSE MovieHandler(c, Answered(calls, c, o, body), body,
                            WithTheaters(DocOf(body), Selected(body, NoMovie),
                                         ParseMovie(DocOf(body), Selected(body, NoMovie), TRUE, AskedId).ret,
                                         FALSE))
    /\ UNCHANGED <<theaters, movies, pageLimit, thing, outs>>

\* No extraction run is going on while the instance is used.
NoThing == [op |-> "none"]

Init ==
    /\ \E limit \in PageLimits : FreshInstance(limit)
    /\ thing = NoThing
    /\ outs = <<>>

Next ==
    \/ GetTheaters
    \/ GetMovies
    \/ GetTheater
    \/ GetMovie
    \/ \E c \in 1..MaxCalls : TheatersResponse(c)
    \/ \E c \in 1..MaxCalls : MoviesResponse(c)
    \/ \E c \in 1..MaxCalls : TheaterResponse(c)
    \/ \E c \in 1..MaxCalls : MovieResponse(c)

Spec == Init /\ [][Next]_vars

\* One call at a time: a new call starts only when no request is pending.
AllSettled == \A c \in 1..Len(calls) : calls[c].status # "awaiting"

SoloGetTheaters == AllSettled /\ GetTheaters
SoloGetMovies == AllSettled /\ GetMovies
SoloGetTheater == AllSettled /\ GetTheater
SoloGetMovie == AllSettled /\ GetMovie

NextSolo ==
    \/ SoloGetTheaters
    \/ SoloGetMovies
    \/ SoloGetTheater
    \/ SoloGetMovie
    \/ \E c \in 1..MaxCalls : TheatersResponse(c)
    \/ \E c \in 1..MaxCalls : MoviesResponse(c)
    \/ \E c \in 1..MaxCalls : TheaterResponse(c)
    \/ \E c \in 1..MaxCalls : MovieResponse(c)

SpecSolo == Init /\ [][NextSolo]_vars

\* ----------------------------------------------------- claims on the calls

IsListing(call) == call.op \in {"getTheaters", "getMovies"}

\* Every request of the call so far came back 200 with the page asked for.
Clean(call) ==
    \A i \in 1..Len(call.got) : call.got[i] = [outcome |-> "ok", body |-> "page"]

\* The starts a listing call sends when it runs alone: 0, 10, 20, ...
SoloStarts(n) == [i \in 1..n |-> (i - 1) * PageSize]

\* The names of the named fragments of page p, in source order.
NamesOn(op, p) ==
    SelectSeq([i \in 1..Len(ListedFrags(op, p)) |-> ListedFrags(op, p)[i].name],
              LAMBDA n : n # <<>>)

\* The names on pages 1..n, in page order.
RECURSIVE NamesUpTo(_, _)
NamesUpTo(op, n) == IF n = 0 THEN <<>> ELSE NamesUpTo(op, n - 1) \o NamesOn(op, n)

NamesOf(data) == [i \in 1..Len(data) |-> data[i].name.v]

\* cb was called once, with no error and a result of the pages 1..n.
DeliveredPages(call, n) ==
    /\ Len(call.cbs) = 1
    /\ call.cbs[1].err = JsNull
    /\ call.cbs[1].data.t = "result"
    /\ NamesOf(call.cbs[1].data.data) = NamesUpTo(call.op, n)

\* C1 as stated: with no page limit configured, a listing call whose every
\* request came back with its page sends its requests in page order (starts
\* 0, 10, ...), one per page, N in all, and then calls back once with the
\* named records of the N pages, in page order then source order.
C1_Pagination ==
    \A c \in 1..Len(calls) :
        (IsListing(calls[c]) /\ pageLimit = DefaultPageLimit /\ Clean(calls[c])) =>
            /\ Len(calls[c].fetches) <= NumPages
            /\ calls[c].fetches = SoloStarts(Len(calls[c].fetches))
            /\ calls[c].status # "thrown"
            /\ calls[c].status = "awaiting" => calls[c].cbs = <<>>
            /\ calls[c].status = "done" =>
                  /\ Len(calls[c].fetches) = NumPages
                  /\ DeliveredPages(calls[c], NumPages)

\* C2 as stated, for a page limit K of at least one page: a listing call
\* never sends more than K requests, and when K < N and every request came
\* back with its page it sends exactly K and then delivers its result.
C2_PageLimit ==
    \A c \in 1..Len(calls) :
        (IsListing(calls[c]) /\ pageLimit >= 1) =>
            /\ Len(calls[c].fetches) <= pageLimit
            /\ (pageLimit < NumPages /\ Clean(calls[c]) /\ calls[c].status # "awaiting") =>
                  /\ Len(calls[c].fetches) = pageLimit
                  /\ DeliveredPages(calls[c], pageLimit)

\* C2 for every integer K, a limit of 0 included.
C2_AnyLimit ==
    \A c \in 1..Len(calls) : IsListing(calls[c]) => Len(calls[c].fetches) <= pageLimit

\* The pages a listing call stops after when it runs alone.
SoloPages == IF pageLimit \in 1..NumPages THEN pageLimit ELSE NumPages

\* C3 as stated, for the listing calls: a call sends the starts it would
\* send alone on a fresh instance, and the result it delivers holds the
\* records of the pages it would fetch alone and no others.
C3_ListingIsolation ==
    \A c \in 1..Len(calls) :
        (IsListing(calls[c]) /\ Clean(calls[c])) =>
            /\ calls[c].fetches = SoloStarts(Len(calls[c].fetches))
            /\ calls[c].status = "done" => DeliveredPages(calls[c], SoloPages)

\* C3 as stated, for the lookups by id: the start a lookup sends is the one
\* it sends on a fresh instance, whatever calls came before it.
C3_LookupIsolation ==
    \A c \in 1..Len(calls) : ~IsListing(calls[c]) => calls[c].fetches = <<Start(0)>>

\* C4 as stated: a call whose last request was answered, and which sent no
\* further one, has called its callback exactly once; no call calls back
\* twice.
C4_OneCallback ==
    \A c \in 1..Len(calls) :
        /\ Len(calls[c].cbs) <= 1
        /\ calls[c].status # "awaiting" => Len(calls[c].cbs) = 1

\* C5 as stated: a 200 whose page has no fragments is delivered as a success
\* (no error argument) carrying the page's result text, and a structured
\* object is delivered only when fragments were there.
C5_EmptyIsSuccess ==
    \A c \in 1..Len(calls) :
        (calls[c].got # <<>> /\ Last(calls[c].got) = [outcome |-> "ok", body |-> "empty"]) =>
            /\ calls[c].status = "done"
            /\ Len(calls[c].cbs) = 1
            /\ calls[c].cbs[1].err \in {JsNull, Undefined}
            /\ calls[c].cbs[1].data = JsStr(ResultsText)

\* A request of the call failed: a transport error or another status.
FailedAt(call, i) == call.got[i].outcome \in {"neterr", "non200"}

\* C6: when a request fails, of the first page or a later one, the call is
\* over: its callback was called once, with the transport error or the
\* unknown-error string and no result, and the failed request was its last
\* (no retry, no further page).
C6_FailureEndsCall ==
    \A c \in 1..Len(calls) : \A i \in 1..Len(calls[c].got) :
        FailedAt(calls[c], i) =>
            /\ i = Len(calls[c].got)
            /\ Len(calls[c].fetches) = i
            /\ calls[c].status = "done"
            /\ Len(calls[c].cbs) = 1
            /\ calls[c].cbs[1].err =
                 (IF calls[c].got[i].outcome = "neterr" THEN NetworkError ELSE UnknownError)
            /\ calls[c].cbs[1].err.v # <<>>
            /\ calls[c].cbs[1].data = Undefined

\* C6's case: a listing call whose first page came and whose second request
\* came back with another status.
C6_Witness ==
    \E c \in 1..Len(calls) :
        /\ IsListing(calls[c])
        /\ Len(calls[c].got) = 2
        /\ calls[c].got[1].outcome = "ok"
        /\ calls[c].got[2].outcome = "non200"
        /\ calls[c].status = "done"

\* No record without a name in what was delivered: not at the top, not as
\* the single record, not nested.
AllNamed(rs) == \A i \in 1..Len(rs) : rs[i].name.v # <<>>

NestedNamed(r) ==
    IF r.t = "theater" THEN r.movies.t = "list" => AllNamed(r.movies.v)
    ELSE r.theaters.t = "list" => AllNamed(r.theaters.v)

NoUnnamed(result) ==
    IF result.ref = 0
    THEN result.data.name.v # <<>> /\ NestedNamed(result.data)
    ELSE AllNamed(result.data) /\ \A i \in 1..Len(result.data) : NestedNamed(result.data[i])

\* Page 1 holds a fragment without a name between two named ones.
UnnamedSeen(call) ==
    \E i \in 1..Len(call.got) : call.got[i].outcome = "ok" /\ call.got[i].body \in {"page", "unnamed"}

\* C9 as stated: a fragment without a name never shows in a delivered
\* result, never makes the call throw or miss its callback, and its
\* siblings before and after it are delivered.
C9_UnnamedSkipped ==
    \A c \in 1..Len(calls) :
        /\ \A k \in 1..Len(calls[c].cbs) :
              calls[c].cbs[k].data.t = "result" => NoUnnamed(calls[c].cbs[k].data)
        /\ (calls[c].got # <<>> /\ Last(calls[c].got) = [outcome |-> "ok", body |-> "unnamed"]) =>
              calls[c].status = "done" /\ Len(calls[c].cbs) = 1 /\ calls[c].cbs[1].err = JsNull

\* The part of C9 the listing loops keep: the top-level records of a
\* delivered listing all have names, and the siblings of a fragment without
\* a name are among them.
C9_ListingSkipsUnnamed ==
    \A c \in 1..Len(calls) : \A k \in 1..Len(calls[c].cbs) :
        (IsListing(calls[c]) /\ calls[c].cbs[k].data.t = "result") =>
            AllNamed(calls[c].cbs[k].data.data)

====
